---- MODULE Spec2Model ----
(***************************************************************************)
(* Model of the incremental build engine of boldiweb (src/boldibuild.py):  *)
(* BuildDB (two insertion-ordered maps and their JSON file), the Handler   *)
(* chain, and Build.build / Build.rebuild / Build.register_dependency as a *)
(* call stack that is executed one source step at a time.                  *)
(*                                                                         *)
(* Python dicts are modelled as sequences of <<key, value>> pairs in       *)
(* insertion order.  A stamp is a string; the stat() of a file is modelled *)
(* by one number (0: stat raises OSError) and FileHandler.stamp formats it.*)
(***************************************************************************)
EXTENDS Integers, Sequences, FiniteSets, TLC

\* ------------------------------------------------------------------ bounds

\* top-level steps of the host (build, rebuild, edit, save, restart) in Spec
MaxOps == 3
\* top-level steps of the host in SpecEdits
MaxEditOps == 4
\* top-level steps of the host in SpecSession
MaxSessionOps == 5
\* register_dependency calls made by one run of a handler's build_impl
MaxRegs == 2
\* distinct stat() results one file can show
NumStamps == 3
\* top-level steps of the host in SpecCycle
MaxCycleOps == 3
\* frames on the call stack at which the interpreter raises RecursionError
\* (sys.getrecursionlimit())
MaxDepth == 8

\* ----------------------------------------------------------------- targets

Targets == {"T", "U", "V"}

\* T is derived from U and V, U is derived from V, V is a source file:
\* the dependencies the handlers' build_impl may register (an acyclic graph)
DepsOf(t) ==
    CASE t = "T" -> {"U", "V"}
      [] t = "U" -> {"V"}
      [] OTHER   -> {}

\* what the build_impl of a host with a cyclic graph may register: T and U
\* are each derived from the other
CyclicDepsOf(t) ==
    CASE t = "T" -> {"U"}
      [] t = "U" -> {"T"}
      [] OTHER   -> {}

\* ------------------------------------------------------------ Python values

\* Optional[Stamp]: the result of dict.pop(target, None)
None == [none |-> TRUE, s |-> ""]
Str(s) == [none |-> FALSE, s |-> s]

\* a value that is a str or a bool, as `a and b and a == b` returns
StrVal(s) == [type |-> "str", s |-> s, b |-> FALSE]
BoolVal(b) == [type |-> "bool", s |-> "", b |-> b]

\* bool(v)
Truthy(v) == IF v.type = "str" THEN v.s # "" ELSE v.b

\* x and y: x when x is falsy, else y
PyAnd(x, y) == IF Truthy(x) THEN y ELSE x

\* ---------------------------------------------------- insertion-ordered dict

Keys(d) == {d[i][1] : i \in DOMAIN d}

Has(d, k) == k \in Keys(d)

\* d[k] for a key that is present
Get(d, k) == d[CHOOSE i \in DOMAIN d : d[i][1] = k][2]

\* d[k] = v: an existing key keeps its position, a new key goes last
Put(d, k, v) ==
    IF Has(d, k)
    THEN [i \in DOMAIN d |-> IF d[i][1] = k THEN <<k, v>> ELSE d[i]]
    ELSE Append(d, <<k, v>>)

RemoveKey(e, k) == e[1] # k

\* d.pop(k, None): the dict without k
Pop(d, k) == SelectSeq(d, LAMBDA e : RemoveKey(e, k))

\* defaultdict.__getitem__: the value read, and the dict after the read
\* (a missing key is inserted with the default)
DefaultGet(d, k, default) ==
    IF Has(d, k)
    THEN [value |-> Get(d, k), dict |-> d]
    ELSE [value |-> default, dict |-> Append(d, <<k, default>>)]

\* ------------------------------------------------------- the JSON document

\* a JSON value: a string, or an object whose members keep the order written
JStr(s) == [t |-> "string", s |-> s, members |-> <<>>]
JObj(m) == [t |-> "object", s |-> "", members |-> m]

\* the other JSON values: a number, null, an array (its elements kept as
\* <<index, value>>), and a text json.load rejects with JSONDecodeError
JNum == [t |-> "number", s |-> "", members |-> <<>>]
JNull == [t |-> "null", s |-> "", members |-> <<>>]
JArr(m) == [t |-> "array", s |-> "", members |-> m]
Malformed == [t |-> "malformed", s |-> "", members |-> <<>>]

\* the file at db_path: absent (open raises OSError), or holding a document
NoFile == [exists |-> FALSE, doc |-> JObj(<<>>)]
FileOf(doc) == [exists |-> TRUE, doc |-> doc]

\* json.dump of a dict[str, str]: one member per item, in iteration order
DumpStrDict(d) == JObj([i \in DOMAIN d |-> <<d[i][1], JStr(d[i][2])>>])

\* json.dump of a dict[str, dict[str, str]]
DumpDepsDict(dd) == JObj([i \in DOMAIN dd |-> <<dd[i][1], DumpStrDict(dd[i][2])>>])

\* BuildDB.save: the document json.dump writes
save(tg, dp) ==
    FileOf(JObj(<< <<"targets", DumpStrDict(tg)>>,
                   <<"dependencies", DumpDepsDict(dp)>> >>))

\* dict.update(pairs) / the dict json.load builds from an object's members:
\* every pair is assigned in order
RECURSIVE Update(_, _)
Update(d, pairs) ==
    IF pairs = <<>> THEN d
    ELSE Update(Put(d, Head(pairs)[1], Head(pairs)[2]), Tail(pairs))

\* json.load of an object of strings
LoadStrDict(obj) ==
    Update(<<>>, [i \in DOMAIN obj.members |->
                     <<obj.members[i][1], obj.members[i][2].s>>])

\* build_db_json.get(key, {})
JsonGet(obj, key) ==
    LET top == Update(<<>>, obj.members)
    IN  IF Has(top, key) THEN Get(top, key) ELSE JObj(<<>>)

\* load with line 34 outside the loop: only the last target's dependencies
\* are assigned
load_dedented(file) ==
    LET build_db_json ==
            IF file.exists /\ file.doc.t = "object" THEN file.doc ELSE JObj(<<>>)
        tj == JsonGet(build_db_json, "targets")
        dj == JsonGet(build_db_json, "dependencies")
        n == Len(dj.members)
    IN  [targets |-> Update(<<>>, LoadStrDict(tj)),
         dependencies |->
            IF n = 0 THEN <<>>
            ELSE << <<dj.members[n][1], LoadStrDict(dj.members[n][2])>> >>]

\* BuildDB.load: the two maps read from the file
load(file) ==
    LET build_db_json ==
            IF file.exists /\ file.doc.t = "object" THEN file.doc ELSE JObj(<<>>)
        tj == JsonGet(build_db_json, "targets")
        dj == JsonGet(build_db_json, "dependencies")
    IN  [targets |-> Update(<<>>, LoadStrDict(tj)),
         dependencies |->
            Update(<<>>, [i \in DOMAIN dj.members |->
                             <<dj.members[i][1], LoadStrDict(dj.members[i][2])>>])]

\* dict.update(v), line 30, raises: v is not iterable (TypeError), or an
\* element of v is no pair (a number: TypeError, a character: ValueError)
update_raises(v) ==
    CASE v.t = "object" -> FALSE
      [] v.t = "array"  -> v.members # <<>>
      [] v.t = "string" -> v.s # ""
      [] OTHER          -> TRUE

\* v.items(), line 33, raises AttributeError: only a dict has items
items_raises(v) == v.t # "object"

\* BuildDB.load raises: "" when it returns, else the line that raises
load_raises(file) ==
    LET build_db_json ==
            IF file.exists /\ file.doc.t = "object" THEN file.doc ELSE JObj(<<>>)
        tj == JsonGet(build_db_json, "targets")
        dj == JsonGet(build_db_json, "dependencies")
    IN  IF update_raises(tj) THEN "line 30"
        ELSE IF items_raises(dj) THEN "line 33"
        ELSE ""

\* ------------------------------------------------------------------ handlers

\* Handler(): the fallback of get_handler
NullHandler == [cls |-> "Handler", accepts |-> {}]
\* SourceFileHandler: accepts every target, build_impl does nothing
SourceFileHandler == [cls |-> "SourceFileHandler", accepts |-> Targets]
\* a FileHandler subclass of the host that accepts its own targets and whose
\* build_impl registers dependencies and writes the target
DerivedFileHandler == [cls |-> "DerivedFileHandler", accepts |-> {"T", "U"}]

\* a FileHandler subclass of a host whose targets depend on each other
CyclicFileHandler == [cls |-> "CyclicFileHandler", accepts |-> {"T", "U"}]

\* the handler chains a host may install
Chains ==
    { <<DerivedFileHandler, SourceFileHandler>>,
      <<SourceFileHandler, DerivedFileHandler>>,
      <<DerivedFileHandler>> }

can_handle(h, t) ==
    CASE h.cls = "SourceFileHandler"  -> TRUE
      [] h.cls = "DerivedFileHandler" -> t \in h.accepts
      [] h.cls = "CyclicFileHandler"  -> t \in h.accepts
      [] OTHER                        -> FALSE

\* Build.get_handler: the loop over self.handlers from index i on
RECURSIVE ScanHandlers(_, _, _)
ScanHandlers(hs, i, t) ==
    IF i > Len(hs) THEN NullHandler
    ELSE IF can_handle(hs[i], t) THEN hs[i]
    ELSE ScanHandlers(hs, i + 1, t)

\* get_handler looping over reversed(self.handlers)
get_handler_reversed(hs, t) ==
    ScanHandlers([i \in DOMAIN hs |-> hs[Len(hs) + 1 - i]], 1, t)

get_handler(hs, t) == ScanHandlers(hs, 1, t)

\* FileHandler.stamp: the formatted stat, "" when stat raises OSError. Of the
\* stat of file t the model keeps st_ino (the file) and st_mtime_ns (st)
FileStamp(t, st) == IF st = 0 THEN "" ELSE t \o " " \o ToString(st)

\* handler.stamp(target) on file system f
stamp(h, t, f) == IF h.cls = "Handler" THEN "" ELSE FileStamp(t, f[t])

\* stamps_match as plain equality: return a == b
stamps_match_eq(a, b) == BoolVal(a = b)

\* Handler.stamps_match: a and b and a == b
stamps_match(a, b) == PyAnd(StrVal(a), PyAnd(StrVal(b), BoolVal(a = b)))

\* whether build_impl of the handler does anything (Handler, FileHandler and
\* SourceFileHandler inherit `pass`)
ImplIsPass(h) == h.cls \notin {"DerivedFileHandler", "CyclicFileHandler"}

\* the dependencies build_impl of handler h may register for target t
ImplDeps(h, t) == IF h.cls = "CyclicFileHandler" THEN CyclicDepsOf(t) ELSE DepsOf(t)

\* --------------------------------------------------------------------- state

VARIABLES
    handlers,      \* Build.handlers: the chain the host installed
    fs,            \* the file system: target -> stat (0: no such file)
    targets,       \* Build.db.targets
    dependencies,  \* Build.db.dependencies
    disk,          \* the file at Build.db_path
    stack,         \* the call stack of build / rebuild frames, innermost last
    op,            \* the host's current (or last) top-level call, observed
    prev,          \* the top-level call before it
    nops,          \* top-level calls made so far
    cmp            \* a call of Handler.stamps_match: its arguments and result

vars == <<handlers, fs, targets, dependencies, disk, stack, op, prev, nops, cmp>>

\* a frame of Build.build or Build.rebuild
\*   pc     where the call stands
\*   old    rebuild: old_stamp
\*   items  build: the items of dependencies[target] being iterated
\*   i      build: the index of the item under inspection
\*   regs   rebuild: the register_dependency calls build_impl made so far
\*   wrote  rebuild: build_impl has written the target
\*   ret    build: what build(dep) returned (the value assigned to _)
\*   known  observed: the target was a key of targets when the call was made
\*   calls0 observed: the build_impl invocations for the target made before
\*          the call, during the same call of the host
Frame(fn, t) ==
    [fn |-> fn, target |-> t, pc |-> "start", old |-> None,
     items |-> <<>>, i |-> 0, regs |-> <<>>, wrote |-> FALSE,
     ret |-> BoolVal(FALSE), known |-> Has(targets, t),
     calls0 |-> IF stack = <<>> THEN 0 ELSE op.calls[t]]

Top == stack[Len(stack)]

Front(s) == SubSeq(s, 1, Len(s) - 1)

SetTop(s, f) == [s EXCEPT ![Len(s)] = f]

Idle == stack = <<>>

NoCalls == [t \in Targets |-> 0]

NoSnapshot == [targets |-> <<>>, dependencies |-> <<>>, fs |-> [t \in Targets |-> 0]]

Snapshot == [targets |-> targets, dependencies |-> dependencies, fs |-> fs]

\* the record of a top-level call
\*   outcome  "running", "returned", "raised" (by build_impl or load) or
\*            "recursion" (RecursionError)
\*   result   the truth value of what the call returned
\*   calls    the number of build_impl invocations per target during the call
\*   failed   the target whose build_impl raised ("" when none did)
\*   rebuilt  the target of the rebuild that returned last ("" when none did)
\*   regs     the register_dependency calls of the build_impl that returned
\*            or raised last, as <<dependency, stamp recorded>>
\*   start    the DB and the file system when the call was made
NewOp(kind, t, outcome, start) ==
    [kind |-> kind, target |-> t, outcome |-> outcome, result |-> FALSE,
     calls |-> NoCalls, failed |-> "", rebuilt |-> "", regs |-> <<>>,
     start |-> start]

\* what the next call's record keeps of call o
\*   built     its target when o was a build that returned ("" otherwise)
\*   failed    the target whose build_impl raised during o
\*   reloaded  when o was a restart that followed a save that followed a build
\*             that returned: the target of that build
\*   edited    the file o edited when o was an edit
Summary(o) ==
    [built |-> IF o.kind = "build" /\ o.outcome = "returned" THEN o.target ELSE "",
     failed |-> o.failed,
     reloaded |-> IF o.kind = "restart" THEN o.target ELSE "",
     edited |-> IF o.kind = "edit" THEN o.target ELSE ""]

\* no call of stamps_match under observation
NoCompare == [a |-> "", b |-> "", called |-> FALSE, result |-> BoolVal(FALSE)]

\* ------------------------------------------------------------- fresh stamps

StampsOfDict(d) == {d[i][2] : i \in DOMAIN d}

StampsOfDeps(dd) == UNION {StampsOfDict(dd[i][2]) : i \in DOMAIN dd}

StampsOfDb(db) == StampsOfDict(db.targets) \cup StampsOfDeps(db.dependencies)

\* every stamp some part of the state still remembers
UsedStamps ==
    {FileStamp(t, fs[t]) : t \in Targets}
        \cup StampsOfDict(targets) \cup StampsOfDeps(dependencies)
        \cup StampsOfDb(load(disk)) \cup StampsOfDb(op.start)
        \cup {FileStamp(t, op.start.fs[t]) : t \in Targets}
        \cup {stack[k].old.s : k \in DOMAIN stack}
        \cup UNION {StampsOfDict(stack[k].items) : k \in DOMAIN stack}

\* the stats file t has not shown as far as the state remembers
FreshStats(t) == {n \in 1..NumStamps : FileStamp(t, n) \notin UsedStamps}

\* the stat of file t just written: st_mtime_ns and st_ctime_ns make it differ
\* from every stat the file had before
FreshStat(t) == CHOOSE n \in FreshStats(t) : \A m \in FreshStats(t) : n <= m

\* ---------------------------------------------------------------------- Init

\* a new Build on the DB file `file`, the files as f: __post_init__ loads the DB
InitState(f, file) ==
    /\ fs = f
    /\ disk = file
    /\ targets = load(file).targets
    /\ dependencies = load(file).dependencies
    /\ stack = <<>>
    /\ op = NewOp("init", "", "returned", NoSnapshot)
    /\ prev = Summary(NewOp("init", "", "returned", NoSnapshot))
    /\ nops = 0

\* the same with one of the chains of Chains installed
InitOn(f, file) == handlers \in Chains /\ InitState(f, file)

\* a new Build with no DB file
InitWith(f) == InitOn(f, NoFile)

\* a project never built: the source exists, the derived files do not
SourcesOnly == [t \in Targets |-> IF t = "V" THEN 1 ELSE 0]

\* a project whose DB file was removed: every file exists
AllFiles == [t \in Targets |-> 1]

\* the DB file an earlier run saved after build("V"), build("U"), build("T"):
\* T registered U, U registered V
BuiltFile ==
    save(<<<<"V", FileStamp("V", 1)>>, <<"U", FileStamp("U", 1)>>,
           <<"T", FileStamp("T", 1)>>>>,
         <<<<"U", <<<<"V", FileStamp("V", 1)>>>>>>,
           <<"T", <<<<"U", FileStamp("U", 1)>>>>>>>>)

Init == InitWith(SourcesOnly) /\ cmp = NoCompare

\* ------------------------------------------------------------ returning

\* a return with value v into the frames s: a frame that called in tail
\* position (return self.rebuild(target)) returns the same value in turn, a
\* frame waiting for build(dep) goes on to re-stamp dep
RECURSIVE Unwind(_, _)
Unwind(s, v) ==
    IF s = <<>> THEN s
    ELSE IF s[Len(s)].pc = "tail" THEN Unwind(Front(s), v)
    ELSE SetTop(s, [s[Len(s)] EXCEPT !.pc = "check", !.ret = v])

\* record o of the host's call after a call returned v into the frames s
Returned(o, s, v) ==
    IF Unwind(s, v) = <<>>
    THEN [o EXCEPT !.outcome = "returned", !.result = Truthy(v)]
    ELSE o

\* ---------------------------------------------------- the host's calls

\* the host calls build(t)
CallBuild(t) ==
    /\ Idle
    /\ stack' = <<Frame("build", t)>>
    /\ prev' = Summary(op)
    /\ op' = NewOp("build", t, "running", Snapshot)
    /\ nops' = nops + 1
    /\ UNCHANGED <<handlers, fs, targets, dependencies, disk, cmp>>

\* the host calls rebuild(t)
CallRebuild(t) ==
    /\ Idle
    /\ stack' = <<Frame("rebuild", t)>>
    /\ prev' = Summary(op)
    /\ op' = NewOp("rebuild", t, "running", Snapshot)
    /\ nops' = nops + 1
    /\ UNCHANGED <<handlers, fs, targets, dependencies, disk, cmp>>

\* the file of t is edited, created or deleted from outside: its stat becomes
\* 0 (deleted), one seen before (reverted) or a new one
Edit(t, n) ==
    /\ Idle
    /\ n # fs[t]
    /\ \/ n = 0
       \/ FileStamp(t, n) \in UsedStamps
       \/ FreshStats(t) # {} /\ n = FreshStat(t)
    /\ fs' = [fs EXCEPT ![t] = n]
    /\ prev' = Summary(op)
    /\ op' = NewOp("edit", t, "returned", NoSnapshot)
    /\ nops' = nops + 1
    /\ UNCHANGED <<handlers, targets, dependencies, disk, stack, cmp>>

\* the target of the host's call when that was a build that returned
BuiltJustBefore ==
    IF op.kind = "build" /\ op.outcome = "returned" THEN op.target ELSE ""

\* the target built and then saved when the host's last two calls were those
SavedJustBefore == IF op.kind = "save" THEN op.target ELSE ""

\* Build.save_build_db; the record keeps which build it followed
SaveBuildDb ==
    /\ Idle
    /\ disk' = save(targets, dependencies)
    /\ prev' = Summary(op)
    /\ op' = NewOp("save", BuiltJustBefore, "returned", NoSnapshot)
    /\ nops' = nops + 1
    /\ UNCHANGED <<handlers, fs, targets, dependencies, stack, cmp>>

\* the process ends and the host constructs a new Build on the same db_path
\* with the same handlers: __post_init__ calls load_build_db; the record keeps
\* which build and save it followed
Restart ==
    /\ Idle
    /\ targets' = load(disk).targets
    /\ dependencies' = load(disk).dependencies
    /\ prev' = Summary(op)
    /\ op' = NewOp("restart", SavedJustBefore, "returned", NoSnapshot)
    /\ nops' = nops + 1
    /\ UNCHANGED <<handlers, fs, disk, stack, cmp>>

\* Build.load_build_db on whatever db_path holds. When load raises, the map
\* it was filling stays the empty defaultdict of line 29 or 32, and the
\* exception reaches the host
LoadBuildDb ==
    /\ Idle
    /\ op.kind = "init"
    /\ LET raises == load_raises(disk)
       IN  /\ targets' = IF raises = "line 30" THEN <<>> ELSE load(disk).targets
           /\ dependencies' = IF raises = "line 30" THEN dependencies
                               ELSE IF raises = "line 33" THEN <<>>
                               ELSE load(disk).dependencies
           /\ op' = NewOp("load", "", IF raises = "" THEN "returned" ELSE "raised",
                          NoSnapshot)
    /\ prev' = Summary(op)
    /\ nops' = nops + 1
    /\ UNCHANGED <<handlers, fs, disk, stack, cmp>>

\* --------------------------------------------------------------- Build.build

\* build with line 113 testing only that a stamp is recorded: a target whose
\* file changed goes on to its dependencies
BuildBeginNoSelfCheck ==
    /\ ~Idle /\ Top.fn = "build" /\ Top.pc = "start"
    /\ LET t == Top.target
           old == DefaultGet(targets, t, "")
           deps == DefaultGet(dependencies, t, <<>>)
       IN  /\ targets' = old.dict
           /\ IF old.value = ""
              THEN /\ stack' = Append(SetTop(stack, [Top EXCEPT !.pc = "tail"]),
                                      Frame("rebuild", t))
                   /\ UNCHANGED dependencies
              ELSE /\ stack' = SetTop(stack, [Top EXCEPT !.pc = "loop", !.i = 1,
                                                         !.items = deps.value])
                   /\ dependencies' = deps.dict
    /\ UNCHANGED <<handlers, fs, disk, op, prev, nops, cmp>>

\* build, lines 110-116: the self-check
BuildBegin ==
    /\ ~Idle /\ Top.fn = "build" /\ Top.pc = "start"
    /\ LET t == Top.target
           handler == get_handler(handlers, t)
           old == DefaultGet(targets, t, "")
           cur_stamp == stamp(handler, t, fs)
           deps == DefaultGet(dependencies, t, <<>>)
       IN  /\ targets' = old.dict
           /\ IF ~Truthy(stamps_match(old.value, cur_stamp))
              THEN /\ stack' = Append(SetTop(stack, [Top EXCEPT !.pc = "tail"]),
                                      Frame("rebuild", t))
                   /\ UNCHANGED dependencies
              ELSE /\ stack' = SetTop(stack, [Top EXCEPT !.pc = "loop", !.i = 1,
                                                         !.items = deps.value])
                   /\ dependencies' = deps.dict
    /\ UNCHANGED <<handlers, fs, disk, op, prev, nops, cmp>>

\* the loop without line 127: the dependency is stamped again without
\* being built first
BuildDepNotBuilt ==
    /\ ~Idle /\ Top.fn = "build" /\ Top.pc = "loop"
    /\ Top.i <= Len(Top.items)
    /\ stack' = SetTop(stack, [Top EXCEPT !.pc = "check"])
    /\ UNCHANGED <<handlers, fs, targets, dependencies, disk, op, prev, nops, cmp>>

\* build, line 127, with the stack at the recursion limit: the call
\* self.build(dep) raises RecursionError, which no frame catches
RecursionLimit ==
    /\ ~Idle /\ Top.fn = "build" /\ Top.pc = "loop"
    /\ Top.i <= Len(Top.items)
    /\ Len(stack) >= MaxDepth
    /\ stack' = <<>>
    /\ op' = [op EXCEPT !.outcome = "recursion"]
    /\ UNCHANGED <<handlers, fs, targets, dependencies, disk, prev, nops, cmp>>

\* build, line 127: the next recorded dependency is built
BuildDep ==
    /\ ~Idle /\ Top.fn = "build" /\ Top.pc = "loop"
    /\ Top.i <= Len(Top.items)
    /\ Len(stack) < MaxDepth
    /\ stack' = Append(SetTop(stack, [Top EXCEPT !.pc = "wait"]),
                       Frame("build", Top.items[Top.i][1]))
    /\ UNCHANGED <<handlers, fs, targets, dependencies, disk, op, prev, nops, cmp>>

\* lines 129-132 comparing the new stamp of dep with the stamp targets
\* records for dep, not with the stamp recorded under the target
BuildCheckDepAgainstTargets ==
    /\ ~Idle /\ Top.fn = "build" /\ Top.pc = "check"
    /\ LET dep == Top.items[Top.i][1]
           old_dep_stamp == IF Has(targets, dep) THEN Get(targets, dep) ELSE ""
           dep_handler == get_handler(handlers, dep)
           new_dep_stamp == stamp(dep_handler, dep, fs)
       IN  IF ~Truthy(stamps_match(old_dep_stamp, new_dep_stamp))
           THEN stack' = Append(SetTop(stack, [Top EXCEPT !.pc = "tail"]),
                                Frame("rebuild", Top.target))
           ELSE stack' = SetTop(stack, [Top EXCEPT !.pc = "loop", !.i = Top.i + 1])
    /\ UNCHANGED <<handlers, fs, targets, dependencies, disk, op, prev, nops, cmp>>

\* lines 127-132 heeding the result of build(dep): the target is rebuilt
\* also when dep was not up to date
BuildCheckDepHeedsResult ==
    /\ ~Idle /\ Top.fn = "build" /\ Top.pc = "check"
    /\ LET dep == Top.items[Top.i][1]
           old_dep_stamp == Top.items[Top.i][2]
           dep_handler == get_handler(handlers, dep)
           new_dep_stamp == stamp(dep_handler, dep, fs)
       IN  IF ~Truthy(Top.ret) \/ ~Truthy(stamps_match(old_dep_stamp, new_dep_stamp))
           THEN stack' = Append(SetTop(stack, [Top EXCEPT !.pc = "tail"]),
                                Frame("rebuild", Top.target))
           ELSE stack' = SetTop(stack, [Top EXCEPT !.pc = "loop", !.i = Top.i + 1])
    /\ UNCHANGED <<handlers, fs, targets, dependencies, disk, op, prev, nops, cmp>>

\* build, lines 129-132: the dependency is stamped again and compared with
\* the stamp recorded for it
BuildCheckDep ==
    /\ ~Idle /\ Top.fn = "build" /\ Top.pc = "check"
    /\ LET dep == Top.items[Top.i][1]
           old_dep_stamp == Top.items[Top.i][2]
           dep_handler == get_handler(handlers, dep)
           new_dep_stamp == stamp(dep_handler, dep, fs)
       IN  IF ~Truthy(stamps_match(old_dep_stamp, new_dep_stamp))
           THEN stack' = Append(SetTop(stack, [Top EXCEPT !.pc = "tail"]),
                                Frame("rebuild", Top.target))
           ELSE stack' = SetTop(stack, [Top EXCEPT !.pc = "loop", !.i = Top.i + 1])
    /\ UNCHANGED <<handlers, fs, targets, dependencies, disk, op, prev, nops, cmp>>

\* build, line 135: every dependency matched, return True
BuildUpToDate ==
    /\ ~Idle /\ Top.fn = "build" /\ Top.pc = "loop"
    /\ Top.i > Len(Top.items)
    /\ stack' = Unwind(Front(stack), BoolVal(TRUE))
    /\ op' = Returned(op, Front(stack), BoolVal(TRUE))
    /\ UNCHANGED <<handlers, fs, targets, dependencies, disk, prev, nops, cmp>>

\* ------------------------------------------------------------- Build.rebuild

\* rebuild reading the old stamp with targets.get(target) instead of pop
RebuildBeginKeepStamp ==
    /\ ~Idle /\ Top.fn = "rebuild" /\ Top.pc = "start"
    /\ LET t == Top.target
           old_stamp == IF Has(targets, t) THEN Str(Get(targets, t)) ELSE None
       IN  /\ dependencies' = Pop(dependencies, t)
           /\ stack' = SetTop(stack, [Top EXCEPT !.pc = "impl", !.old = old_stamp])
           /\ op' = [op EXCEPT !.calls[t] = @ + 1]
    /\ UNCHANGED <<handlers, fs, targets, disk, prev, nops, cmp>>

\* rebuild without line 103: the recorded dependencies are kept
RebuildBeginKeepDeps ==
    /\ ~Idle /\ Top.fn = "rebuild" /\ Top.pc = "start"
    /\ LET t == Top.target
           old_stamp == IF Has(targets, t) THEN Str(Get(targets, t)) ELSE None
       IN  /\ targets' = Pop(targets, t)
           /\ stack' = SetTop(stack, [Top EXCEPT !.pc = "impl", !.old = old_stamp])
           /\ op' = [op EXCEPT !.calls[t] = @ + 1]
    /\ UNCHANGED <<handlers, fs, dependencies, disk, prev, nops, cmp>>

\* rebuild, lines 101-104: the recorded stamp and dependencies of the target
\* are popped and handler.build_impl is entered
RebuildBegin ==
    /\ ~Idle /\ Top.fn = "rebuild" /\ Top.pc = "start"
    /\ LET t == Top.target
           old_stamp == IF Has(targets, t) THEN Str(Get(targets, t)) ELSE None
       IN  /\ targets' = Pop(targets, t)
           /\ dependencies' = Pop(dependencies, t)
           /\ stack' = SetTop(stack, [Top EXCEPT !.pc = "impl", !.old = old_stamp])
           /\ op' = [op EXCEPT !.calls[t] = @ + 1]
    /\ UNCHANGED <<handlers, fs, disk, prev, nops, cmp>>

\* register_dependency assigning a new map: dependencies[target] = {dep: stamp}
register_dependency_new_map(dp, t, d, f) ==
    LET dep_handler == get_handler(handlers, d)
    IN  Put(dp, t, << <<d, stamp(dep_handler, d, f)>> >>)

\* Build.register_dependency(target, dependency): the dependencies after it
register_dependency(dp, t, d, f) ==
    LET dep_handler == get_handler(handlers, d)
        inner == DefaultGet(dp, t, <<>>)
    IN  Put(inner.dict, t, Put(inner.value, d, stamp(dep_handler, d, f)))

InImpl == ~Idle /\ Top.fn = "rebuild" /\ Top.pc = "impl"

\* build_impl of a derived handler calls register_dependency(d)
ImplRegister(d) ==
    /\ InImpl
    /\ ~ImplIsPass(get_handler(handlers, Top.target))
    /\ d \in ImplDeps(get_handler(handlers, Top.target), Top.target)
    /\ Len(Top.regs) < MaxRegs
    /\ dependencies' = register_dependency(dependencies, Top.target, d, fs)
    /\ LET s == stamp(get_handler(handlers, d), d, fs)
       IN  stack' = SetTop(stack, [Top EXCEPT !.regs = Append(@, <<d, s>>)])
    /\ UNCHANGED <<handlers, fs, targets, disk, op, prev, nops, cmp>>

\* build_impl of a derived handler writes the target file (before it
\* registers what it read, as TargetImageHandler does)
ImplWrite ==
    /\ InImpl
    /\ ~ImplIsPass(get_handler(handlers, Top.target))
    /\ ~Top.wrote
    /\ Top.regs = <<>>
    /\ FreshStats(Top.target) # {}
    /\ fs' = [fs EXCEPT ![Top.target] = FreshStat(Top.target)]
    /\ stack' = SetTop(stack, [Top EXCEPT !.wrote = TRUE])
    /\ UNCHANGED <<handlers, targets, dependencies, disk, op, prev, nops, cmp>>

\* build_impl of a derived handler raises: no frame catches, so the
\* exception ends the host's call
ImplRaise ==
    /\ InImpl
    /\ ~ImplIsPass(get_handler(handlers, Top.target))
    /\ stack' = <<>>
    /\ op' = [op EXCEPT !.outcome = "raised", !.failed = Top.target,
                         !.regs = Top.regs]
    /\ UNCHANGED <<handlers, fs, targets, dependencies, disk, prev, nops, cmp>>

\* rebuild without line 105: the new stamp is not recorded
RebuildFinishNoStamp ==
    /\ InImpl
    /\ LET t == Top.target
           handler == get_handler(handlers, t)
           new_stamp == stamp(handler, t, fs)
           result == PyAnd(BoolVal(~Top.old.none),
                           stamps_match(Top.old.s, new_stamp))
       IN  /\ stack' = Unwind(Front(stack), result)
           /\ op' = Returned([op EXCEPT !.rebuilt = t, !.regs = Top.regs],
                              Front(stack), result)
    /\ UNCHANGED <<handlers, fs, targets, dependencies, disk, prev, nops, cmp>>

\* rebuild with line 106 returning whether the stamp changed
RebuildFinishReturnsChanged ==
    /\ InImpl
    /\ LET t == Top.target
           handler == get_handler(handlers, t)
           new_stamp == stamp(handler, t, fs)
           result == BoolVal(Top.old.none
                                \/ ~Truthy(stamps_match(Top.old.s, new_stamp)))
       IN  /\ targets' = Put(targets, t, new_stamp)
           /\ stack' = Unwind(Front(stack), result)
           /\ op' = Returned([op EXCEPT !.rebuilt = t, !.regs = Top.regs],
                              Front(stack), result)
    /\ UNCHANGED <<handlers, fs, dependencies, disk, prev, nops, cmp>>

\* rebuild, lines 105-106: build_impl returned, the new stamp is recorded
RebuildFinish ==
    /\ InImpl
    /\ LET t == Top.target
           handler == get_handler(handlers, t)
           new_stamp == stamp(handler, t, fs)
           result == PyAnd(BoolVal(~Top.old.none),
                           stamps_match(Top.old.s, new_stamp))
       IN  /\ targets' = Put(targets, t, new_stamp)
           /\ stack' = Unwind(Front(stack), result)
           /\ op' = Returned([op EXCEPT !.rebuilt = t, !.regs = Top.regs],
                              Front(stack), result)
    /\ UNCHANGED <<handlers, fs, dependencies, disk, prev, nops, cmp>>

\* ---------------------------------------------------------------------- Next

\* a step inside the host's call
Step ==
    \/ BuildBegin
    \/ BuildDep
    \/ BuildCheckDep
    \/ BuildUpToDate
    \/ RebuildBegin
    \/ \E d \in Targets : ImplRegister(d)
    \/ ImplWrite
    \/ RebuildFinish

Next ==
    \/ /\ nops < MaxOps
       /\ \/ \E t \in Targets : CallBuild(t)
          \/ \E t \in Targets : CallRebuild(t)
          \/ \E t \in Targets, n \in 0..NumStamps : Edit(t, n)
          \/ SaveBuildDb
          \/ Restart
    \/ Step
    \/ ImplRaise

Spec == Init /\ [][Next]_vars

\* ------------------------------------------------- builds between edits

\* the usual chain (derived targets first, sources last), handlers that do
\* not raise, a host that only builds, and files edited between the builds
UsualChain == <<DerivedFileHandler, SourceFileHandler>>

InitEdits ==
    /\ \/ \E f \in {SourcesOnly, AllFiles} : InitWith(f)
       \/ InitOn(AllFiles, BuiltFile)
    /\ handlers = UsualChain
    /\ cmp = NoCompare

NextEdits ==
    \/ /\ nops < MaxEditOps
       /\ \/ \E t \in Targets : CallBuild(t)
          \/ \E t \in Targets, n \in 0..NumStamps : Edit(t, n)
    \/ Step

SpecEdits == InitEdits /\ [][NextEdits]_vars

\* ------------------------------------------- sessions over one DB file

\* the usual chain, no edit: the host builds, saves and starts again
NextSession ==
    \/ /\ nops < MaxSessionOps
       /\ \/ \E t \in Targets : CallBuild(t)
          \/ SaveBuildDb
          \/ Restart
    \/ Step

InitSession == Init /\ handlers = UsualChain

SpecSession == InitSession /\ [][NextSession]_vars

\* ------------------------------------------------- stamps_match alone

\* the stamps a handler can return
StampStrings == {""} \cup {FileStamp(t, n) : t \in Targets, n \in 1..NumStamps}

InitMatch ==
    /\ InitWith(SourcesOnly)
    /\ handlers = UsualChain
    /\ \E a \in StampStrings, b \in StampStrings :
          cmp = [NoCompare EXCEPT !.a = a, !.b = b]

\* handler.stamps_match(cmp.a, cmp.b) is called
Compare ==
    /\ ~cmp.called
    /\ cmp' = [cmp EXCEPT !.called = TRUE, !.result = stamps_match(cmp.a, cmp.b)]
    /\ UNCHANGED <<handlers, fs, targets, dependencies, disk, stack, op, prev, nops>>

NextMatch == Compare

SpecMatch == InitMatch /\ [][NextMatch]_vars

\* ------------------------------------------------- graphs with a cycle

\* the usual chain or the chain of a host whose derived targets depend on
\* each other; the host builds and rebuilds, no handler raises. A call once
\* made runs to its end: the engine is synchronous
CyclicChain == <<CyclicFileHandler, SourceFileHandler>>

InitCycle ==
    /\ \E f \in {SourcesOnly, AllFiles} : InitState(f, NoFile)
    /\ handlers \in {UsualChain, CyclicChain}
    /\ cmp = NoCompare

NextCycle ==
    \/ /\ nops < MaxCycleOps
       /\ \/ \E t \in Targets : CallBuild(t)
          \/ \E t \in Targets : CallRebuild(t)
    \/ Step
    \/ RecursionLimit

SpecCycle == InitCycle /\ [][NextCycle]_vars /\ WF_vars(Step \/ RecursionLimit)

\* ------------------------------------------------------ BuildDB.load alone

\* what the file may hold under "targets": a map, or a value of another type
TargetsValues ==
    { JObj(<<>>), DumpStrDict(<< <<"T", FileStamp("T", 1)>> >>),
      JArr(<<>>), JArr(<< <<"0", JNum>> >>), JStr(""), JStr("ab"), JNum, JNull }

\* what the file may hold under "dependencies"
DependenciesValues ==
    { JObj(<<>>),
      DumpDepsDict(<< <<"T", << <<"V", FileStamp("V", 1)>> >> >> >>),
      JArr(<<>>), JStr(""), JNum, JNull }

\* no member with the key, or one with a value of vals
Member(key, vals) == {<<>>} \cup {<< <<key, v>> >> : v \in vals}

\* the files load may find: none (or an unreadable one: open raises
\* OSError), a malformed one, a document that is no map, and maps with or
\* without the two keys and an unrecognized key
Files ==
    {NoFile}
        \cup {FileOf(d) : d \in {Malformed, JArr(<<>>), JStr("x"), JNum, JNull}}
        \cup {FileOf(JObj(o \o a \o b)) :
                 o \in Member("other", {JNum}),
                 a \in Member("targets", TargetsValues),
                 b \in Member("dependencies", DependenciesValues)}

\* a BuildDB as constructed (lines 15-18), before __post_init__ loads
InitLoad ==
    /\ handlers = UsualChain
    /\ fs = AllFiles
    /\ disk \in Files
    /\ targets = <<>>
    /\ dependencies = <<>>
    /\ stack = <<>>
    /\ op = NewOp("init", "", "returned", NoSnapshot)
    /\ prev = Summary(NewOp("init", "", "returned", NoSnapshot))
    /\ nops = 0
    /\ cmp = NoCompare

NextLoad == LoadBuildDb

SpecLoad == InitLoad /\ [][NextLoad]_vars

\* ------------------------------------------------------------------ claims

\* dependencies[t] as build reads it: empty when t has no entry
DepsRecorded(dp, t) == IF Has(dp, t) THEN Get(dp, t) ELSE <<>>

\* the host's call has ended
Ended == Idle /\ op.outcome # "running"

\* the host's call was build or rebuild and has returned
CallReturned == Idle /\ op.kind \in {"build", "rebuild"} /\ op.outcome = "returned"

\* C2: whenever a call build(T) ends, at the top level or inside another call,
\* that was made while T was no key of targets, build_impl was invoked for T
\* exactly once during the call, and when the call returned T is a key of
\* targets.
C2_FirstBuildRebuildsOnce ==
    [][\A k \in DOMAIN stack :
          (k > Len(stack') /\ stack[k].fn = "build" /\ ~stack[k].known)
              => /\ op'.calls[stack[k].target] = stack[k].calls0 + 1
                 /\ op'.outcome # "raised" => Has(targets', stack[k].target)]_vars

\* the host's build(T) of a target that was no key of targets has returned
C2_Witness ==
    /\ Idle /\ op.kind = "build" /\ op.outcome = "returned"
    /\ ~Has(op.start.targets, op.target)
    /\ op.calls[op.target] = 1
    /\ Has(targets, op.target)

\* C5: whenever rebuild(T) returns, dependencies[T] holds exactly the
\* dependencies build_impl registered during this rebuild, in the order of
\* their first registration, each with the stamp it had when it was
\* registered last; nothing an earlier rebuild recorded remains.
C5_DependencyReplacement ==
    [][(InImpl /\ Len(stack') < Len(stack) /\ op'.outcome # "raised")
          => DepsRecorded(dependencies', Top.target) = Update(<<>>, Top.regs)]_vars

\* a rebuild of the host's target has just returned that registered
\* something, and not a dependency that was recorded for the target before
C5_Witness ==
    /\ CallReturned /\ op.rebuilt = op.target
    /\ op.regs # <<>>
    /\ \E d \in Keys(DepsRecorded(op.start.dependencies, op.target)) :
          d \notin Keys(op.regs)
    /\ Keys(DepsRecorded(dependencies, op.target)) = Keys(op.regs)

\* C6: stamps_match(a, b) is true exactly when a and b are non-empty and
\* equal; so it is false for ("", ""), ("", s) and (s, ""), and true for
\* (s, s) with s non-empty.
C6_EmptySentinel ==
    cmp.called =>
        /\ Truthy(cmp.result) <=> (cmp.a # "" /\ cmp.b # "" /\ cmp.a = cmp.b)
        /\ (cmp.a = "" \/ cmp.b = "") => ~Truthy(cmp.result)
        /\ (cmp.a # "" /\ cmp.a = cmp.b) => Truthy(cmp.result)

\* stamps_match("", "") was called and returned a false value
C6_Witness == cmp.called /\ cmp.a = "" /\ cmp.b = "" /\ ~Truthy(cmp.result)

\* handler.stamp(t) in the state st the call started in
StampAt(st, t) == stamp(get_handler(handlers, t), t, st.fs)

\* in st, t has a recorded stamp and its current stamp matches it
SelfFresh(st, t) ==
    /\ Has(st.targets, t)
    /\ Truthy(stamps_match(Get(st.targets, t), StampAt(st, t)))

\* the dependencies recorded under t in st whose current stamp does not match
\* the stamp recorded under t
StaleDeps(st, t) ==
    LET deps == DepsRecorded(st.dependencies, t)
    IN  {deps[i][1] : i \in {j \in DOMAIN deps :
            ~Truthy(stamps_match(deps[j][2], StampAt(st, deps[j][1])))}}

\* the host's build(op.target) has returned
BuildReturned == Idle /\ op.kind = "build" /\ op.outcome = "returned"

\* the maps of db hold the same as targets and dependencies, not counting
\* dependency entries that are empty
SameDb(db) ==
    /\ targets = db.targets
    /\ \A t \in Targets :
          DepsRecorded(dependencies, t) = DepsRecorded(db.dependencies, t)

\* C1: a build(T) that directly follows a build(T) that returned (every stamp
\* the first one left in the DB being non-empty) invokes no build_impl, for
\* T or for any other target, and leaves the DB as it was.
C1_Idempotence ==
    (BuildReturned /\ prev.built = op.target /\ "" \notin StampsOfDb(op.start))
        => op.calls = NoCalls /\ SameDb(op.start)

\* C3: when build(T) is called for a T whose own stamp matches the recorded
\* one while some dependency recorded under T has a current stamp that does
\* not match the stamp recorded under T, and the call returns, build_impl was
\* invoked for T exactly once; the dependency may be up to date itself.
C3_DepChangeRebuilds ==
    (BuildReturned /\ SelfFresh(op.start, op.target)
                   /\ StaleDeps(op.start, op.target) # {})
        => op.calls[op.target] = 1

\* build(T) rebuilt T once because of a dependency D that had just been built
\* alone and was up to date itself, with a stamp other than the one under T
C3_Witness ==
    /\ BuildReturned /\ SelfFresh(op.start, op.target)
    /\ prev.built \in StaleDeps(op.start, op.target)
    /\ SelfFresh(op.start, prev.built)
    /\ op.calls[op.target] = 1

\* build(T) was called right after an edit of a dependency D recorded under
\* T, with T's own stamp and the stamp of every dependency recorded under T
\* (D too: the edit put its old stamp back) matching the recorded ones
AfterRevert ==
    /\ BuildReturned
    /\ prev.edited \in Keys(DepsRecorded(op.start.dependencies, op.target))
    /\ SelfFresh(op.start, op.target)
    /\ StaleDeps(op.start, op.target) = {}

\* every dependency recorded under the host's target when the call was made
\* has that recorded stamp now
DepsStillMatch ==
    LET deps == DepsRecorded(op.start.dependencies, op.target)
    IN  \A i \in DOMAIN deps :
           stamp(get_handler(handlers, deps[i][1]), deps[i][1], fs) = deps[i][2]

\* every dependency recorded under the host's target when the call was made
\* had been built itself: it was a key of targets
DepsKnown ==
    \A d \in Keys(DepsRecorded(op.start.dependencies, op.target)) :
        Has(op.start.targets, d)

C7_PersistedAfterRebuild ==
    (CallReturned /\ op.rebuilt = op.target) => disk = save(targets, dependencies)

\* C8: when build_impl raises during rebuild(T), T is no key of targets and
\* dependencies[T] holds nothing but what the failed build_impl registered;
\* a build(T) that follows directly invokes build_impl for T.
C8_CrashMidRebuild ==
    /\ (Idle /\ op.outcome = "raised")
          => /\ ~Has(targets, op.failed)
             /\ DepsRecorded(dependencies, op.failed) = Update(<<>>, op.regs)
    /\ (Ended /\ op.kind = "build" /\ prev.failed = op.target)
          => op.calls[op.target] = 1

\* build_impl raised for a target that had a recorded stamp and recorded
\* dependencies before
C8_Witness ==
    /\ Idle /\ op.outcome = "raised"
    /\ Has(op.start.targets, op.failed)
    /\ DepsRecorded(op.start.dependencies, op.failed) # <<>>
    /\ ~Has(targets, op.failed)

\* C9: in every state, loading the file that save writes gives the DB back:
\* the same targets, the same dependencies, every map in the same order.
C9_RoundTrip ==
    load(save(targets, dependencies)) =
        [targets |-> targets, dependencies |-> dependencies]

\* the host built, saved and started again with a DB in which T recorded V
\* before U, and the new instance holds what the file was written from
C9_Witness ==
    /\ Idle /\ op.kind = "restart" /\ op.target # ""
    /\ Keys(dependencies) # {}
    /\ Len(DepsRecorded(dependencies, "T")) = 2
    /\ DepsRecorded(dependencies, "T")[1][1] = "V"
    /\ disk = save(targets, dependencies)

\* in db, T records U alone, U records V alone, and no stamp is empty
ThreeLevel(db) ==
    /\ Keys(DepsRecorded(db.dependencies, "T")) = {"U"}
    /\ Keys(DepsRecorded(db.dependencies, "U")) = {"V"}
    /\ "" \notin StampsOfDb(db)

\* C10: with T recording U and U recording V, after build(T) returned, the DB
\* was saved and a new instance loaded it, build(T) invokes no build_impl.
C10_NoRebuildAfterRestart ==
    (BuildReturned /\ op.target = "T" /\ prev.reloaded = "T"
                   /\ ThreeLevel(op.start))
        => op.calls = NoCalls

\* every key of db.dependencies is a key of db.targets
DepsKeysKnown(db) == Keys(db.dependencies) \subseteq Keys(db.targets)

PartOf(file, key) ==
    IF file.exists /\ file.doc.t = "object"
    THEN JsonGet(file.doc, key) ELSE JObj(<<>>)

\* C12: load returns whatever the file is, and a part that is missing or no
\* map is loaded as empty.
C12_LoadNeverFails ==
    op.kind = "load" =>
        /\ op.outcome = "returned"
        /\ PartOf(disk, "targets").t # "object" => targets = <<>>
        /\ PartOf(disk, "dependencies").t # "object" => dependencies = <<>>

\* the chain indices of the handlers that accept t
Accepting(t) == {i \in DOMAIN handlers : can_handle(handlers[i], t)}

\* C13: for every target, get_handler returns the handler at the lowest chain
\* index among those whose can_handle is true, never a later one, and it
\* returns the null handler (accepts nothing, stamps "") exactly when no
\* handler of the chain accepts the target.
C13_HandlerResolution ==
    \A t \in Targets :
        LET h == get_handler(handlers, t)
            isNull == /\ \A u \in Targets : ~can_handle(h, u)
                      /\ stamp(h, t, fs) = ""
                      /\ h = NullHandler
        IN  /\ Accepting(t) # {}
                 => \E i \in Accepting(t) :
                       /\ \A j \in Accepting(t) : i <= j
                       /\ h = handlers[i]
            /\ isNull <=> Accepting(t) = {}

\* a rebuild of T returned under a chain in which two handlers accept T and
\* the first one, whose build_impl registers nothing, was the one used
C13_Witness ==
    /\ CallReturned /\ op.rebuilt = "T"
    /\ Cardinality(Accepting("T")) = 2
    /\ get_handler(handlers, "T") = SourceFileHandler
    /\ handlers[2] = DerivedFileHandler
    /\ DepsRecorded(dependencies, "T") = <<>>

\* C14: a build or rebuild call for a target no handler of the chain accepts
\* ends with an error raised by the null handler's build_impl; it does not
\* return and leaves no stamp for the target in targets.
C14_NullHandlerCannotBuild ==
    (Ended /\ op.kind \in {"build", "rebuild"} /\ Accepting(op.target) = {})
        => /\ op.outcome = "raised"
           /\ ~Has(targets, op.target)

\* this step is a call register_dependency(Top.target, dep) made by build_impl
Registers == InImpl /\ Len(stack') = Len(stack) /\ Top'.regs # Top.regs

\* C15: a call register_dependency(T, D) sets dependencies[T][D] to the
\* current stamp of D and changes nothing else: no build_impl is invoked and
\* no build or rebuild is called, no file, targets and the DB file stay as
\* they are, the other entries of dependencies[T] keep their stamps and
\* their order, and so do the maps of all other targets.
C15_RegisterOnlyRecords ==
    [][Registers =>
          LET t == Top.target
              d == Top'.regs[Len(Top'.regs)][1]
              before == DepsRecorded(dependencies, t)
              after == DepsRecorded(dependencies', t)
          IN  /\ Has(after, d)
              /\ Get(after, d) = stamp(get_handler(handlers, d), d, fs)
              /\ after = Put(before, d, Get(after, d))
              /\ Pop(dependencies', t) = Pop(dependencies, t)
              /\ targets' = targets /\ fs' = fs /\ disk' = disk
              /\ op'.calls = op.calls
              /\ Front(stack') = Front(stack)]_vars

\* build_impl of T has registered a second dependency while U had recorded
\* dependencies of its own, and V, registered, is no key of targets
C15_Witness ==
    /\ InImpl /\ Top.target = "T" /\ Len(Top.regs) = 2
    /\ Keys(DepsRecorded(dependencies, "T")) = {"U", "V"}
    /\ DepsRecorded(dependencies, "U") # <<>>
    /\ ~Has(targets, "V")
    /\ op.calls["V"] = 0

\* C16: build(T) calls build(D) from its dependency loop only for a D that is
\* a key of targets at that moment; so when build(T) has returned, a target
\* other than T that was no key of targets when the call was made has had no
\* build_impl invoked and is still no key of targets.
C16_RecurseOnlyIntoKnown ==
    /\ \A k \in DOMAIN stack :
          (k > 1 /\ stack[k].fn = "build" /\ stack[k - 1].fn = "build")
              => stack[k].known
    /\ BuildReturned =>
          \A d \in Targets \ {op.target} :
              ~Has(op.start.targets, d)
                  => op.calls[d] = 0 /\ ~Has(targets, d)

\* the host called build(T) for a T that was a key of targets with a recorded
\* stamp that did not match its current stamp
SelfStale ==
    /\ op.kind = "build"
    /\ Has(op.start.targets, op.target)
    /\ ~SelfFresh(op.start, op.target)

\* C17: build(T) for a T that is a key of targets whose current stamp does
\* not match the recorded one never enters its dependency loop (it builds no
\* dependency and stamps none again), calls nothing but rebuild(T) before
\* build_impl is invoked for T, and build_impl is invoked for T exactly once.
C17_SelfCheckFirst ==
    SelfStale =>
        /\ ~Idle => /\ stack[1].pc \in {"start", "tail"}
                    /\ stack[1].i = 0
                    /\ Len(stack) <= 2
                    /\ Len(stack) = 2 => /\ stack[2].fn = "rebuild"
                                         /\ stack[2].target = op.target
        /\ \A d \in Targets \ {op.target} : op.calls[d] = 0
        /\ Ended => op.calls[op.target] = 1

\* the output of T was edited or deleted, T had recorded dependencies, and
\* build(T) has returned after one build_impl for T
C17_Witness ==
    /\ SelfStale /\ Ended /\ op.outcome = "returned"
    /\ prev.edited = op.target
    /\ DepsRecorded(op.start.dependencies, op.target) # <<>>
    /\ op.calls[op.target] = 1

\* C18: in every build(T) call the dependency loop runs over the map recorded
\* under T in its order (the order of first registration of T's last
\* rebuild, by C5), one dependency after the other: dependency i is built by
\* a call build(D_i), its stamp is read again only when that call has
\* returned, and the loop moves to dependency i + 1 only after that
\* comparison.
C18_InspectionOrder ==
    [][\A k \in DOMAIN stack \cap DOMAIN stack' :
          stack[k].fn = "build" =>
              LET f == stack[k]
                  g == stack'[k]
              IN  /\ (f.pc = "start" /\ g.pc = "loop")
                        => /\ g.items = DepsRecorded(dependencies, f.target)
                           /\ g.i = 1
                  /\ f.pc # "start"
                        => /\ g.items = f.items
                           /\ g.i \in {f.i, f.i + 1}
                  /\ (f.pc = "loop" /\ g.pc # "loop")
                        => /\ g.pc = "wait" /\ g.i = f.i
                           /\ Len(stack') = k + 1
                           /\ stack'[k + 1].fn = "build"
                           /\ stack'[k + 1].pc = "start"
                           /\ stack'[k + 1].target = f.items[f.i][1]
                  /\ (f.pc # "check" /\ g.pc = "check")
                        => /\ f.pc = "wait" /\ g.i = f.i
                           /\ Len(stack) > k /\ Len(stack') = k
                  /\ (f.pc # "start" /\ g.i = f.i + 1)
                        => /\ f.pc = "check" /\ g.pc = "loop"
                           /\ Len(stack) = k]_vars

\* build(T) reads the stamp of its second dependency again: T's last rebuild
\* registered V first and U second, and the build of U has returned
C18_Witness ==
    /\ ~Idle /\ Top.fn = "build" /\ Top.target = "T" /\ Top.pc = "check"
    /\ Top.i = 2 /\ Len(Top.items) = 2
    /\ Top.items[1][1] = "V" /\ Top.items[2][1] = "U"
    /\ op.calls["U"] > 0

\* the targets recorded as dependencies of a target of S in db
RecordedDeps(db, S) == UNION {Keys(DepsRecorded(db.dependencies, u)) : u \in S}

\* the targets the recorded graph of db reaches from S in n steps or fewer
RECURSIVE ReachIn(_, _, _)
ReachIn(db, S, n) ==
    IF n = 0 THEN S ELSE ReachIn(db, S \cup RecordedDeps(db, S), n - 1)

\* the targets the recorded graph reaches from t, t included
ReachFrom(db, t) == ReachIn(db, {t}, Cardinality(Targets))

\* the recorded graph of db has a cycle that can be reached from t
CycleReachable(db, t) ==
    \E u \in ReachFrom(db, t) :
        u \in ReachIn(db, RecordedDeps(db, {u}), Cardinality(Targets))

\* the targets the handlers of the chain can make t depend on, in n steps
RECURSIVE ImplReachIn(_, _)
ImplReachIn(S, n) ==
    IF n = 0 THEN S
    ELSE ImplReachIn(S \cup UNION {ImplDeps(get_handler(handlers, u), u) : u \in S},
                     n - 1)

\* the graph the handlers of the chain register has no cycle
AcyclicHandlers ==
    \A t \in Targets :
        t \notin ImplReachIn(ImplDeps(get_handler(handlers, t), t),
                             Cardinality(Targets))

\* in st, every target the recorded graph reaches from t is up to date: its
\* own stamp matches and so does every stamp recorded under it
AllFresh(st, t) ==
    \A u \in ReachFrom(st, t) : SelfFresh(st, u) /\ StaleDeps(st, u) = {}

\* the host's call is running
Running == op.outcome = "running"

RecordedStamp(db, t) == IF Has(db.targets, t) THEN Get(db.targets, t) ELSE ""

\* C20: when build(T) has returned, its result is true exactly when the stamp
\* targets recorded for T before the call is non-empty and equal to the stamp
\* targets records for T now; so it is true when build_impl was not invoked
\* for T, false when T was no key of targets before, and false when T was
\* rebuilt and its recorded stamp is another one than before.
C20_BuildResult ==
    BuildReturned =>
        LET before == RecordedStamp(op.start, op.target)
            after == RecordedStamp([targets |-> targets], op.target)
        IN  /\ Has(targets, op.target)
            /\ op.result <=> (before # "" /\ before = after)
            /\ op.calls[op.target] = 0 => op.result
            /\ ~Has(op.start.targets, op.target) => ~op.result
            /\ (op.calls[op.target] > 0 /\ before # after) => ~op.result

\* build(T) rebuilt T because a dependency had changed, T's stamp is the one
\* recorded before, and the call returned true
C20_Witness ==
    /\ BuildReturned /\ op.calls[op.target] = 1
    /\ StaleDeps(op.start, op.target) # {}
    /\ RecordedStamp(op.start, op.target) # ""
    /\ op.result

====
